---- MODULE Spec2Model ----
(***************************************************************************)
(* MCPClient (src/mcp_client.py): a facade that owns one transport handle  *)
(* (_stdio_client) and one client session, both None until connect.        *)
(* The external transport and session are collaborators whose calls may    *)
(* succeed or raise; every such outcome is a nondeterministic input.       *)
(***************************************************************************)
EXTENDS Integers, Sequences, FiniteSets, TLC

\* ---------------------------------------------------------------- bounds
\* Transports one facade instance may construct in one behaviour.
MaxTransports == 2
\* Longest text payload of the first content element.
MaxTextLen == 3
\* Most content elements that follow the first one in a read response.
MaxExtra == 1
\* Close calls one transport may receive.
MaxCloseCalls == 2

\* ---------------------------------------------------------------- values
None == 0

Transports == 1..MaxTransports

\* Life of an external transport context manager.
\*   "unborn"  not constructed yet
\*   "failed"  __aenter__ raised, nothing was opened
\*   "open"    subprocess and streams alive
\*   "closed"  released
TransportStates == {"unborn", "failed", "open", "closed"}

\* Outcomes of the external calls inside connect.
ConnectOutcomes == {"ok", "open_raises", "initialize_raises"}

\* Outcomes of the external __aexit__ of the transport: it returns, or it
\* raises having released the transport, or it raises part-way with the
\* transport still alive.
CloseOutcomes == {"ok", "raises_closed", "raises_open"}

\* Errors the external session may raise from a request.
ExternalErrors == {"McpError", "ConnectionError"}

\* Outcomes of one external session request.
RequestOutcomes == {"ok"} \cup ExternalErrors

DataOps == {"list_tools", "call_tool", "read_resource", "list_prompts", "get_prompt"}

\* ---------------------------------------------------------------- content
MIME_JSON == "application/json"

MimeTypes == {MIME_JSON, "text/plain", "application/json; charset=utf-8"}

Alphabet == {"1", "[", "]", " "}

RECURSIVE SeqsUpTo(_, _)
SeqsUpTo(S, n) ==
    IF n = 0 THEN {<<>>}
    ELSE LET shorter == SeqsUpTo(S, n - 1)
         IN  shorter \cup {Append(s, x) : s \in {q \in shorter : Len(q) = n - 1}, x \in S}

Texts == SeqsUpTo(Alphabet, MaxTextLen)

Elements == [mime_type : MimeTypes, text : Texts]

\* Elements that may follow the first one.
ExtraElements == [mime_type : MimeTypes, text : {<<"1">>, <<"[">>}]

ContentLists ==
    {<<>>} \cup {<<first>> \o rest : first \in Elements, rest \in SeqsUpTo(ExtraElements, MaxExtra)}

\* The responses used while exploring the connection life cycle.
SampleContents ==
    { <<>>,
      <<[mime_type |-> "text/plain", text |-> <<"1">>],
        [mime_type |-> MIME_JSON, text |-> <<"[">>]>> }

VARIABLES
    _stdio_client,   \* the handle: None or the transport it wraps
    session,         \* None or the transport the session is bound to
    transport,       \* state of every transport
    initialized,     \* sessions whose initialize() returned
    closeCalls,      \* __aexit__ calls received by every transport
    created,         \* transports constructed so far
    scope,           \* position of the caller's async with statement
    scopeOpened,     \* transports opened by the current scope's entry
    scopeCleanups,   \* cleanup runs made by leaving the current scope
    contents,        \* result.contents the server returns for a read
    cleanupsInRow,   \* cleanup calls made since the last other operation
    last             \* the operation that just ran and how it ended

vars == <<_stdio_client, session, transport, initialized, closeCalls, created,
          scope, scopeOpened, scopeCleanups, contents, cleanupsInRow, last>>

facade == <<_stdio_client, session>>
external == <<transport, initialized, closeCalls, created>>
scoped == <<scope, scopeOpened, scopeCleanups>>

\* ---------------------------------------------------------------- json.loads
\* A decoded JSON value: an integer or an array of values.
IntValue(n) == [kind |-> "int", num |-> n, items |-> <<>>]

ListValue(vs) == [kind |-> "list", num |-> 0, items |-> vs]

NoValue == [kind |-> "none", num |-> 0, items |-> <<>>]

ParseFail == [ok |-> FALSE, val |-> NoValue, next |-> 0]

\* Index of the first character at or after i that is not whitespace.
RECURSIVE SkipWs(_, _)
SkipWs(s, i) ==
    IF i <= Len(s) /\ s[i] = " " THEN SkipWs(s, i + 1) ELSE i

\* Index just after the run of digits that starts at i.
RECURSIVE DigitsEnd(_, _)
DigitsEnd(s, i) ==
    IF i <= Len(s) /\ s[i] = "1" THEN DigitsEnd(s, i + 1) ELSE i

\* The number written by the digits s[i..j].
RECURSIVE DecimalOf(_, _, _)
DecimalOf(s, i, j) ==
    IF j < i THEN 0 ELSE 10 * DecimalOf(s, i, j - 1) + 1

\* One JSON value starting at i: a number, or an array holding at most one
\* value (the alphabet has no comma).
RECURSIVE ParseValue(_, _)
ParseValue(s, i) ==
    IF i > Len(s) THEN ParseFail
    ELSE IF s[i] = "1" THEN
        LET j == DigitsEnd(s, i)
        IN  [ok |-> TRUE, val |-> IntValue(DecimalOf(s, i, j - 1)), next |-> j]
    ELSE IF s[i] = "[" THEN
        LET j == SkipWs(s, i + 1)
        IN  IF j <= Len(s) /\ s[j] = "]"
            THEN [ok |-> TRUE, val |-> ListValue(<<>>), next |-> j + 1]
            ELSE LET r == ParseValue(s, j)
                     k == SkipWs(s, r.next)
                 IN  IF r.ok /\ k <= Len(s) /\ s[k] = "]"
                     THEN [ok |-> TRUE, val |-> ListValue(<<r.val>>), next |-> k + 1]
                     ELSE ParseFail
    ELSE ParseFail

\* json.loads: one value with optional whitespace around it, nothing else.
json_loads(s) ==
    LET r == ParseValue(s, SkipWs(s, 1))
    IN  IF r.ok /\ SkipWs(s, r.next) = Len(s) + 1
        THEN [ok |-> TRUE, val |-> r.val]
        ELSE [ok |-> FALSE, val |-> NoValue]

\* ---------------------------------------------------------------- outcomes
\* What the caller of an operation observes, and what the operation did to
\* the external session: calls is the number of requests it issued, target
\* the session that received them, raisedBy the error the collaborator raised.
Outcome(op, outcome, error, raisedBy, calls, target, form, text, json) ==
    [op |-> op, outcome |-> outcome, error |-> error, raisedBy |-> raisedBy,
     calls |-> calls, target |-> target, form |-> form, text |-> text, json |-> json]

Plain(op, outcome, error, raisedBy) ==
    Outcome(op, outcome, error, raisedBy, 0, None, "none", <<>>, NoValue)

NOT_CONNECTED == "RuntimeError: Client not connected"

\* if not self.session: raise RuntimeError(...)
NotConnected(op) == Plain(op, "raised", NOT_CONNECTED, "")

\* A request that is retried once after an error, the retry returning.
Propagated_retry(op, err) ==
    Outcome(op, "returned", "", "", 2, session, "opaque", <<>>, NoValue)

\* The external request raised: nothing catches it.
Propagated(op, err) ==
    Outcome(op, "raised", err, err, 1, session, "none", <<>>, NoValue)

\* The external request returned and its field is handed back as it is.
Verbatim(op) ==
    Outcome(op, "returned", "", "", 1, session, "opaque", <<>>, NoValue)

\* An unwrapping that takes the last element of result.contents.
Unwrap_last(cs) ==
    IF Len(cs) = 0
    THEN Outcome("read_resource", "raised", "IndexError", "", 1, session, "none", <<>>, NoValue)
    ELSE LET resource == cs[Len(cs)]
         IN  IF resource.mime_type = MIME_JSON
             THEN LET d == json_loads(resource.text)
                  IN  IF d.ok
                      THEN Outcome("read_resource", "returned", "", "", 1, session,
                                   "json", <<>>, d.val)
                      ELSE Outcome("read_resource", "raised", "JSONDecodeError", "", 1,
                                   session, "none", <<>>, NoValue)
             ELSE Outcome("read_resource", "returned", "", "", 1, session,
                          "text", resource.text, NoValue)

\* An unwrapping that answers an empty result.contents with an empty text.
Unwrap_default(cs) ==
    IF Len(cs) = 0
    THEN Outcome("read_resource", "returned", "", "", 1, session, "text", <<>>, NoValue)
    ELSE LET resource == cs[1]
         IN  IF resource.mime_type = MIME_JSON
             THEN LET d == json_loads(resource.text)
                  IN  IF d.ok
                      THEN Outcome("read_resource", "returned", "", "", 1, session,
                                   "json", <<>>, d.val)
                      ELSE Outcome("read_resource", "raised", "JSONDecodeError", "", 1,
                                   session, "none", <<>>, NoValue)
             ELSE Outcome("read_resource", "returned", "", "", 1, session,
                          "text", resource.text, NoValue)

\* result.contents[0], then the branch on its mime_type.
Unwrap(cs) ==
    IF Len(cs) = 0
    THEN Outcome("read_resource", "raised", "IndexError", "", 1, session, "none", <<>>, NoValue)
    ELSE LET resource == cs[1]
         IN  IF resource.mime_type = MIME_JSON
             THEN LET d == json_loads(resource.text)
                  IN  IF d.ok
                      THEN Outcome("read_resource", "returned", "", "", 1, session,
                                   "json", <<>>, d.val)
                      ELSE Outcome("read_resource", "raised", "JSONDecodeError", "", 1,
                                   session, "none", <<>>, NoValue)
             ELSE Outcome("read_resource", "returned", "", "", 1, session,
                          "text", resource.text, NoValue)

\* ---------------------------------------------------------------- facade
\* __init__: both fields unset, nothing constructed, no scope entered.
InitFacade ==
    /\ _stdio_client = None
    /\ session = None
    /\ transport = [t \in Transports |-> "unborn"]
    /\ initialized = {}
    /\ closeCalls = [t \in Transports |-> 0]
    /\ created = 0
    /\ scope = "idle"
    /\ scopeOpened = {}
    /\ scopeCleanups = 0
    /\ cleanupsInRow = 0
    /\ last = Plain("__init__", "returned", "", "")

Init == InitFacade /\ contents \in SampleContents

\* The body of connect: a new transport is constructed and assigned to the
\* handle, entered, its result assigned to the session, and the session
\* initialized.  A raise leaves the assignments made before it.
connect_body(o) ==
    LET t == created + 1
    IN  /\ created' = t
        /\ _stdio_client' = t
        /\ transport' = [transport EXCEPT ![t] = IF o = "open_raises" THEN "failed" ELSE "open"]
        /\ session' = IF o = "open_raises" THEN session ELSE t
        /\ initialized' = IF o = "ok" THEN initialized \cup {t} ELSE initialized
        /\ UNCHANGED closeCalls

ConnectResult(op, o) ==
    IF o = "ok" THEN Plain(op, "returned", "", "") ELSE Plain(op, "raised", o, o)

connect(o) ==
    /\ created < MaxTransports
    /\ connect_body(o)
    /\ last' = ConnectResult("connect", o)
    /\ cleanupsInRow' = 0
    /\ UNCHANGED <<scoped, contents>>

\* A cleanup without the guard on the handle: None has no __aexit__.
cleanup_body_unguarded(op, o) ==
    IF _stdio_client # None
    THEN /\ closeCalls' = [closeCalls EXCEPT ![_stdio_client] = @ + 1]
         /\ transport' = [transport EXCEPT ![_stdio_client] =
                             IF @ = "open" /\ o # "raises_open" THEN "closed" ELSE @]
         /\ session' = IF o = "ok" THEN None ELSE session
         /\ _stdio_client' = IF o = "ok" THEN None ELSE _stdio_client
         /\ last' = IF o = "ok" THEN Plain(op, "returned", "", "")
                    ELSE Plain(op, "raised", "CloseError", "CloseError")
         /\ UNCHANGED <<initialized, created>>
    ELSE /\ last' = Plain(op, "raised", "AttributeError", "")
         /\ UNCHANGED <<facade, external>>

\* The body of cleanup: the handle's __aexit__ is awaited when a handle
\* exists, then both fields are cleared; a raise from __aexit__ leaves the
\* function before the two assignments, so cleanup raises exactly when it
\* awaited an __aexit__ that raised.
cleanup_body(op, o) ==
    IF _stdio_client # None
    THEN /\ closeCalls' = [closeCalls EXCEPT ![_stdio_client] = @ + 1]
         /\ transport' = [transport EXCEPT ![_stdio_client] =
                             IF @ = "open" /\ o # "raises_open" THEN "closed" ELSE @]
         /\ session' = IF o = "ok" THEN None ELSE session
         /\ _stdio_client' = IF o = "ok" THEN None ELSE _stdio_client
         /\ last' = IF o = "ok" THEN Plain(op, "returned", "", "")
                    ELSE Plain(op, "raised", "CloseError", "CloseError")
         /\ UNCHANGED <<initialized, created>>
    ELSE /\ session' = None
         /\ _stdio_client' = None
         /\ last' = Plain(op, "returned", "", "")
         /\ UNCHANGED external

\* The close calls one transport may receive in one behaviour are capped.
CanClose == _stdio_client # None => closeCalls[_stdio_client] < MaxCloseCalls

\* The history counter stops at two.
CountCleanup == IF cleanupsInRow < 2 THEN cleanupsInRow + 1 ELSE 2

cleanup(o) ==
    /\ CanClose
    /\ _stdio_client = None => o = "ok"
    /\ cleanup_body("cleanup", o)
    /\ cleanupsInRow' = CountCleanup
    /\ UNCHANGED <<scoped, contents>>

\* async with MCPClient(...) as client: entry awaits connect; when connect
\* raises, the statement is left without __aexit__ being called.
__aenter__(o) ==
    /\ scope # "body"
    /\ created < MaxTransports
    /\ connect_body(o)
    /\ scope' = IF o = "ok" THEN "body" ELSE "entry_failed"
    /\ scopeOpened' = IF o = "open_raises" THEN {} ELSE {created + 1}
    /\ scopeCleanups' = 0
    /\ last' = ConnectResult("__aenter__", o)
    /\ cleanupsInRow' = 0
    /\ UNCHANGED contents

\* Leaving the body, normally (exc = FALSE) or by an exception: __aexit__
\* awaits cleanup and returns None, so a body exception keeps propagating.
__aexit__(exc, o) ==
    /\ scope = "body"
    /\ CanClose
    /\ _stdio_client = None => o = "ok"
    /\ cleanup_body("__aexit__", o)
    /\ scope' = IF exc THEN "exited_by_exception" ELSE "exited"
    /\ scopeCleanups' = scopeCleanups + 1
    /\ cleanupsInRow' = CountCleanup
    /\ UNCHANGED <<scopeOpened, contents>>

\* A connectivity check that looks at the handle instead of the session.
Connected_handle == _stdio_client # None

\* if not self.session: raise ...
Connected == session # None

\* One data-access operation: the connectivity check, then one awaited
\* request on the session, then the unwrapping of its result.
Delegate(op, r, unwrapped) ==
    /\ last' = IF ~Connected THEN NotConnected(op)
               ELSE IF r \in ExternalErrors THEN Propagated(op, r)
               ELSE unwrapped
    /\ cleanupsInRow' = 0
    /\ UNCHANGED <<facade, external, scoped, contents>>

list_tools(r) == Delegate("list_tools", r, Verbatim("list_tools"))

call_tool(r) == Delegate("call_tool", r, Verbatim("call_tool"))

read_resource(r) == Delegate("read_resource", r, Unwrap(contents))

list_prompts(r) == Delegate("list_prompts", r, Verbatim("list_prompts"))

get_prompt(r) == Delegate("get_prompt", r, Verbatim("get_prompt"))

Next ==
    \/ \E o \in ConnectOutcomes : connect(o)
    \/ \E o \in CloseOutcomes : cleanup(o)
    \/ \E o \in ConnectOutcomes : __aenter__(o)
    \/ \E exc \in BOOLEAN, o \in CloseOutcomes : __aexit__(exc, o)
    \/ \E r \in RequestOutcomes : list_tools(r)
    \/ \E r \in RequestOutcomes : call_tool(r)
    \/ \E r \in RequestOutcomes : read_resource(r)
    \/ \E r \in RequestOutcomes : list_prompts(r)
    \/ \E r \in RequestOutcomes : get_prompt(r)

Spec == Init /\ [][Next]_vars

\* ---------------------------------------------------------------- reads
\* The unwrapping of read_resource over every response within the bounds,
\* on a facade that connects once.
InitRead == InitFacade /\ contents \in ContentLists

NextRead ==
    \/ created = 0 /\ connect("ok")
    \/ \E r \in RequestOutcomes : read_resource(r)

SpecRead == InitRead /\ [][NextRead]_vars

\* ---------------------------------------------------------------- claims
Unset == _stdio_client = None /\ session = None

Alive == {t \in Transports : transport[t] = "open"}

\* C1: a data-access operation run while the session is unset fails with the
\* not-connected error and issues no call to the external session.
C1_NotConnectedNoCall ==
    [][(session = None /\ last'.op \in DataOps)
         => /\ last'.outcome = "raised"
            /\ last'.error = NOT_CONNECTED
            /\ last'.calls = 0
            /\ last'.target = None]_vars

\* get_prompt refused after a connect and a cleanup that completed.
C1_Witness ==
    /\ last.op = "get_prompt"
    /\ last.error = NOT_CONNECTED
    /\ last.calls = 0
    /\ Unset
    /\ created = 1
    /\ transport[1] = "closed"

\* C2: right after a scope whose entry succeeded is left, cleanup has run
\* exactly once for it and both the handle and the session are unset.
C2_ScopeExitUnset ==
    last.op = "__aexit__" => (scopeCleanups = 1 /\ Unset)

\* C3: once control has left the scoped statement, by the end of the body,
\* by an exception in it or by a failed entry, every transport the scope's
\* connect opened is closed.
C3_ScopeReleasesTransport ==
    scope \in {"exited", "exited_by_exception", "entry_failed"}
        => \A t \in scopeOpened : transport[t] = "closed"

\* C4: when cleanup has run, returning or raising, both the handle and the
\* session are unset.
C4_CleanupAlwaysClears ==
    last.op = "cleanup" => Unset

\* C5: cleanup run while the handle is unset does not raise, makes no close
\* call on any transport, leaves every transport as it was, and leaves the
\* handle and the session unset.
C5_CleanupIdempotent ==
    [][(_stdio_client = None /\ last'.op \in {"cleanup", "__aexit__"})
         => /\ last'.outcome = "returned"
            /\ closeCalls' = closeCalls
            /\ transport' = transport
            /\ _stdio_client' = None
            /\ session' = None]_vars

\* connect; cleanup; cleanup: the one transport was closed by one call.
C5_Witness ==
    /\ cleanupsInRow = 2
    /\ last.op = "cleanup"
    /\ last.outcome = "returned"
    /\ Unset
    /\ created = 1
    /\ transport[1] = "closed"
    /\ closeCalls[1] = 1

\* C6: at most one transport opened by the facade is alive.
C6_AtMostOneAlive ==
    Cardinality(Alive) <= 1

\* What read_resource owes the caller for a first element, whatever follows.
DecidedByFirst(first, o) ==
    IF first.mime_type = "application/json"
    THEN IF json_loads(first.text).ok
         THEN /\ o.outcome = "returned"
              /\ o.form = "json"
              /\ o.json = json_loads(first.text).val
         ELSE /\ o.outcome = "raised"
              /\ o.error = "JSONDecodeError"
    ELSE /\ o.outcome = "returned"
         /\ o.form = "text"
         /\ o.text = first.text

\* C7: on a connected facade whose external read returned a non-empty
\* content list, the result of read_resource is decided by the first element
\* alone: decoded from its text when its MIME type is exactly
\* application/json (a decode failure is raised), its text unchanged
\* otherwise.
C7_FirstElementDecides ==
    (last.op = "read_resource" /\ last.calls > 0 /\ last.raisedBy = "" /\ Len(contents) > 0)
        => DecidedByFirst(contents[1], last)

\* A JSON first element decoded to [1] although a text element follows.
C7_Witness ==
    /\ last.op = "read_resource"
    /\ Len(contents) = 2
    /\ contents[1] = [mime_type |-> "application/json", text |-> <<"[", "1", "]">>]
    /\ contents[2].mime_type = "text/plain"
    /\ last.outcome = "returned"
    /\ last.json = ListValue(<<IntValue(1)>>)

\* C8: on a connected facade, read_resource whose external read returned an
\* empty content list raises an index error, returns nothing, and leaves
\* the handle and the session as they were.
C8_EmptyContentsRaises ==
    [][(last'.op = "read_resource" /\ session # None /\ last'.raisedBy = "" /\ contents = <<>>)
         => /\ last'.outcome = "raised"
            /\ last'.error = "IndexError"
            /\ last'.form = "none"
            /\ _stdio_client' = _stdio_client
            /\ session' = session]_vars

C8_Witness ==
    /\ last.op = "read_resource"
    /\ last.error = "IndexError"
    /\ last.calls = 1
    /\ contents = <<>>
    /\ session # None
    /\ session = _stdio_client

C10_SessionInitialized ==
    session # None => session \in initialized

====
